---- MODULE Spec2Model ----
(***************************************************************************)
(* Model of menavka.py: the Field (cyclic deck + cursor), Game.run (the    *)
(* card-effect generator), Game.replay_correct / Game.run_again and the    *)
(* part of game_loop that pulls outcomes and reacts to a correct click.    *)
(***************************************************************************)
EXTENDS Integers, Sequences, FiniteSets, TLC

VARIABLES
    config,     \* Config.cards: sequence of <<card, count>> (dict order)
    field,      \* the Field object
    obj_map,    \* UserInterface.obj_map: card names in ring-slot order
    created,    \* history: the Field as Field.create returned it
    init_labs, init_eyes, init_stripes, init_colors,  \* dice snapshot
    labs, eyes, stripes, colors,                      \* current attributes
    cards,      \* the generator returned by Game.run: [pc, count]
    card,       \* game_loop's held outcome: "None", "" or a card name
    pc,         \* position of the main program
    drawn,      \* history: card drawn by the last iteration of the run
    out,        \* history: values the run produced for that draw
    consec,     \* history: evaluated mutation draws in a row in this run
    replayed    \* history: terminal value of the last replay_correct

vars == <<config, field, obj_map, created, init_labs, init_eyes, init_stripes,
          init_colors, labs, eyes, stripes, colors, cards, card, pc,
          drawn, out, consec, replayed>>

(* ------------------------------ bounds --------------------------------- *)

\* cap on |field.next_count|, which the code lets grow without limit
MaxCount == 12

\* the same cap for the single round on the default-shaped deck
MaxRoundCount == 40

(* ----------------------------- Config ---------------------------------- *)

\* the deck of section 8's scenarios
CfgScenario ==
    << <<"red_stripe_1", 1>>, <<"blue_stripe_1", 1>>, <<"ventilation", 2>>,
       <<"red_lab", 1>> >>

\* four mutation cards, so that four can be drawn in a row
CfgMutations ==
    << <<"red_dot_2", 1>>, <<"eyes_mutation", 2>>, <<"stripes_mutation", 1>>,
       <<"colors_mutation", 1>>, <<"red_lab", 1>> >>

\* one of each mutation kind and two labs
CfgLabs ==
    << <<"ventilation", 1>>, <<"eyes_mutation", 1>>, <<"stripes_mutation", 1>>,
       <<"colors_mutation", 1>>, <<"blue_lab", 1>>, <<"red_lab", 1>> >>

\* two labs and a findable card, so that rounds end early and the next round
\* can start at another lab
CfgRounds ==
    << <<"red_stripe_1", 1>>, <<"ventilation", 1>>, <<"eyes_mutation", 1>>,
       <<"blue_lab", 1>>, <<"red_lab", 1>> >>

Configs == {CfgScenario, CfgMutations, CfgLabs, CfgRounds}

\* the shape of the shipped deck on eight cards: three ventilations, one of
\* each mutation kind, a lab and a findable card
CfgDefaultShape ==
    << <<"red_stripe_1", 1>>, <<"ventilation", 3>>, <<"eyes_mutation", 1>>,
       <<"stripes_mutation", 1>>, <<"colors_mutation", 1>>, <<"red_lab", 1>> >>

\* Config.cards as shipped
DefaultCards ==
    << <<"red_stripe_1", 2>>, <<"red_stripe_2", 2>>, <<"red_dot_1", 2>>,
       <<"red_dot_2", 2>>, <<"blue_stripe_1", 2>>, <<"blue_stripe_2", 2>>,
       <<"blue_dot_1", 2>>, <<"blue_dot_2", 2>>, <<"ventilation", 3>>,
       <<"eyes_mutation", 1>>, <<"stripes_mutation", 1>>,
       <<"colors_mutation", 1>>, <<"blue_lab", 1>>, <<"red_lab", 1>>,
       <<"yellow_lab", 1>> >>

labs_dice ==
    { <<"white", "blue">>, <<"white", "red">>, <<"white", "yellow">>,
      <<"black", "blue">>, <<"black", "red">>, <<"black", "yellow">> }
eyes_dice == {1, 2}
stripes_dice == {1, 2}
colors_dice == {1, 2}

\* variant: the two colors are exchanged
colors_map_swapped == [x \in {1, 2} |-> IF x = 1 THEN "blue" ELSE "red"]

eyes_map == [x \in {1, 2} |-> IF x = 1 THEN "1" ELSE "2"]
stripes_map == [x \in {1, 2} |-> IF x = 1 THEN "stripe" ELSE "dot"]
colors_map == [x \in {1, 2} |-> IF x = 1 THEN "red" ELSE "blue"]

\* f'{colors_map[colors]}_{stripes_map[stripes]}_{eyes}'
card_to_find(c, s, e) == colors_map[c] \o "_" \o stripes_map[s] \o "_" \o eyes_map[e]

\* f'{labs[1]}_lab'
lab_card(l) == l[2] \o "_lab"

\* card.endswith('_mutation') over the closed set of card kinds
IsMutation(c) == c \in {"eyes_mutation", "stripes_mutation", "colors_mutation"}

(* ------------------------------ Field ---------------------------------- *)

RECURSIVE Repeat(_, _)
Repeat(x, n) == IF n = 0 THEN <<>> ELSE <<x>> \o Repeat(x, n - 1)

\* [card for card, count in config.cards.items() for _ in range(count)]
RECURSIVE Expand(_)
Expand(cfg) ==
    IF cfg = <<>> THEN <<>>
    ELSE Repeat(Head(cfg)[1], Head(cfg)[2]) \o Expand(Tail(cfg))

Elems(s) == {s[i] : i \in 1..Len(s)}
Occurs(s, x) == Cardinality({i \in 1..Len(s) : s[i] = x})
SameCards(s, t) ==
    /\ Len(s) = Len(t)
    /\ \A x \in Elems(s) \cup Elems(t) : Occurs(s, x) = Occurs(t, x)

\* list.remove(x): drops the first occurrence
Remove(s, x) ==
    LET i == CHOOSE k \in 1..Len(s) : s[k] = x /\ \A j \in 1..(k - 1) : s[j] # x
    IN  SubSeq(s, 1, i - 1) \o SubSeq(s, i + 1, Len(s))

\* list.reverse()
Reverse(s) == [i \in 1..Len(s) |-> s[Len(s) + 1 - i]]

\* random.shuffle: every ordering of the list is a possible outcome
shuffle(s) == {t \in [1..Len(s) -> Elems(s)] : SameCards(s, t)}

\* Field.__init__
Field_init(cfg, animation) ==
    [animation |-> animation, cards_static |-> Expand(cfg), cyc |-> 0,
     direction |-> "", next_count |-> 0, current_card_filename |-> ""]

\* Field.__len__
FieldLen(f) == Len(f.cards_static)

\* variant: the cycle restarts one card early
cycle_next_short(f) ==
    [card |-> f.cards_static[f.cyc + 1],
     field |-> [f EXCEPT !.cyc = (f.cyc + 1) % (FieldLen(f) - 1)]]

\* next(self.cards) on itertools.cycle(cards_static); cyc = items consumed mod len
cycle_next(f) ==
    [card |-> f.cards_static[f.cyc + 1],
     field |-> [f EXCEPT !.cyc = (f.cyc + 1) % FieldLen(f)]]

\* the ring slot the pointer line is drawn at (angle / (2 pi / len))
Slot(f) == (f.next_count - (IF f.direction = "black" THEN 1 ELSE 0)) % FieldLen(f)

\* variant: the invisible branch forgets the black direction
Field_next_white(f, visible) ==
    IF ~visible
    THEN LET g == [f EXCEPT !.next_count = f.next_count + 1]
         IN  [card |-> cycle_next(g).card, field |-> cycle_next(g).field,
              line |-> -1]
    ELSE LET line == IF f.animation THEN Slot(f) ELSE -1
             g == IF f.direction = "black"
                  THEN [f EXCEPT !.next_count = f.next_count - 1]
                  ELSE [f EXCEPT !.next_count = f.next_count + 1]
         IN  [card |-> cycle_next(g).card, field |-> cycle_next(g).field,
              line |-> line]

\* Field.__next__(visible)
Field_next(f, visible) ==
    IF ~visible
    THEN LET g == IF f.direction = "black"
                  THEN [f EXCEPT !.next_count = f.next_count - 1]
                  ELSE [f EXCEPT !.next_count = f.next_count + 1]
         IN  [card |-> cycle_next(g).card, field |-> cycle_next(g).field,
              line |-> -1]
    ELSE LET line == IF f.animation THEN Slot(f) ELSE -1
             g == IF f.direction = "black"
                  THEN [f EXCEPT !.next_count = f.next_count - 1]
                  ELSE [f EXCEPT !.next_count = f.next_count + 1]
         IN  [card |-> cycle_next(g).card, field |-> cycle_next(g).field,
              line |-> line]

\* Field.next_invisible
next_invisible(f) == Field_next(f, FALSE)

\* variant: the start card is put back at the end of the list
create_append(f, start, direction, sh) ==
    [f EXCEPT !.direction = direction, !.cards_static = sh \o <<start>>, !.cyc = 0]

\* Field.create, for one outcome sh of the shuffle
create(f, start, direction, sh) ==
    [f EXCEPT !.direction = direction, !.cards_static = <<start>> \o sh, !.cyc = 0]

\* variant: the ring is laid out in deck order whatever the direction
show_plain(cs, direction) == cs

\* UserInterface.show: the ring layout
show(cs, direction) == IF direction = "black" THEN Reverse(cs) ELSE cs

\* variant: the cursor is taken one card past the wanted one
RECURSIVE seek_past(_, _)
seek_past(f, target) ==
    LET r == next_invisible(f)
    IN  IF r.card = target THEN next_invisible(r.field).field
        ELSE seek_past(r.field, target)

\* the while loop of cycle_to_start: advance invisibly until start_lab comes
RECURSIVE seek(_, _)
seek(f, target) ==
    LET r == next_invisible(f)
    IN  IF r.card = target THEN r.field ELSE seek(r.field, target)

\* variant: the reversal does not record the new direction
cycle_to_start_keep_dir(f, start_lab, direction) ==
    LET g == IF f.direction # direction
             THEN [f EXCEPT !.cards_static = Reverse(f.cards_static),
                            !.cyc = 0, !.next_count = 0]
             ELSE f
    IN  seek(g, start_lab)

\* variant: the deck is reversed at every seek, whatever the direction
cycle_to_start_always(f, start_lab, direction) ==
    seek([f EXCEPT !.direction = direction,
                   !.cards_static = Reverse(f.cards_static),
                   !.cyc = 0, !.next_count = 0], start_lab)

\* variant: the reversal does not restart the offset
cycle_to_start_keep_count(f, start_lab, direction) ==
    LET g == IF f.direction # direction
             THEN [f EXCEPT !.direction = direction,
                            !.cards_static = Reverse(f.cards_static),
                            !.cyc = 0]
             ELSE f
    IN  seek(g, start_lab)

\* Field.cycle_to_start (start_lab present in the deck)
cycle_to_start(f, start_lab, direction) ==
    LET g == IF f.direction # direction
             THEN [f EXCEPT !.direction = direction,
                            !.cards_static = Reverse(f.cards_static),
                            !.cyc = 0, !.next_count = 0]
             ELSE f
    IN  seek(g, start_lab)

(* ------------------------------- Game ---------------------------------- *)

EXTENSION == "png"

\* variant: the eyes mutation sets two eyes instead of toggling
mutate_eyes_stuck(c, a) ==
    IF c = "eyes_mutation" THEN [a EXCEPT !.eyes = 2]
    ELSE IF c = "stripes_mutation"
    THEN [a EXCEPT !.stripes = IF a.stripes = 1 THEN 2 ELSE 1]
    ELSE IF c = "colors_mutation"
    THEN [a EXCEPT !.colors = IF a.colors = 1 THEN 2 ELSE 1]
    ELSE a

\* the mutation branches of Game.run (lines 498-505)
mutate(c, a) ==
    IF c = "eyes_mutation" THEN [a EXCEPT !.eyes = IF a.eyes = 1 THEN 2 ELSE 1]
    ELSE IF c = "stripes_mutation"
    THEN [a EXCEPT !.stripes = IF a.stripes = 1 THEN 2 ELSE 1]
    ELSE IF c = "colors_mutation"
    THEN [a EXCEPT !.colors = IF a.colors = 1 THEN 2 ELSE 1]
    ELSE a

\* variant: the death check is missing
dies_never(count) == FALSE

\* variant: the death check is off by one
dies_late(count) == count = 4

\* `if count == 3` : the creature dies
dies(count) == count = 3

\* variant: the ventilation is drawn like any card, nothing is skipped
vent_skip_none(f) == f

\* variant: the skip takes one card instead of looping to the next ventilation
vent_skip_once(f) == next_invisible(f).field

\* the ventilation loop of Game.run (lines 494-496)
RECURSIVE vent_skip(_)
vent_skip(f) ==
    LET r == next_invisible(f)
    IN  IF r.card = "ventilation" THEN r.field ELSE vent_skip(r.field)

\* variant: a card that is not the wanted one is yielded by name as the marker
evaluate_named(c, a, count, f) ==
    IF c = card_to_find(a.colors, a.stripes, a.eyes)
    THEN [field |-> f, attrs |-> a, count |-> count, gpc |-> "match", value |-> c]
    ELSE [field |-> f, attrs |-> a, count |-> count, gpc |-> "marker", value |-> c]

\* variant: the card is yielded whether or not it is the wanted one
evaluate_always(c, a, count, f) ==
    [field |-> f, attrs |-> a, count |-> count, gpc |-> "match", value |-> c]

\* variant: the wanted name is compared without the eye count
evaluate_no_eyes(c, a, count, f) ==
    IF c = card_to_find(a.colors, a.stripes, 1)
    THEN [field |-> f, attrs |-> a, count |-> count, gpc |-> "match", value |-> c]
    ELSE [field |-> f, attrs |-> a, count |-> count, gpc |-> "marker", value |-> ""]

\* the result of a draw that is neither ventilation nor mutation (lines 513-516)
evaluate(c, a, count, f) ==
    IF c = card_to_find(a.colors, a.stripes, a.eyes)
    THEN [field |-> f, attrs |-> a, count |-> count, gpc |-> "match", value |-> c]
    ELSE [field |-> f, attrs |-> a, count |-> count, gpc |-> "marker", value |-> ""]

\* one iteration of the `while True` loop of Game.run, up to its yield or
\* `continue`; value "None" means the iteration produced nothing
run_iter(f, a, count) ==
    LET ctf == card_to_find(a.colors, a.stripes, a.eyes)
        f1 == [f EXCEPT !.current_card_filename = ctf \o "." \o EXTENSION]
        r == Field_next(f1, TRUE)
        c == r.card
        a2 == mutate(c, a)
    IN  [drawn |-> c] @@
        IF c = "ventilation"
        THEN [field |-> vent_skip(r.field), attrs |-> a, count |-> count,
              gpc |-> "running", value |-> "None"]
        ELSE IF IsMutation(c)
        THEN IF dies(count)
             THEN [field |-> r.field, attrs |-> a2, count |-> count,
                   gpc |-> "dead", value |-> c]
             ELSE [field |-> r.field, attrs |-> a2, count |-> count + 1,
                   gpc |-> "running", value |-> "None"]
        ELSE evaluate(c, a2, count, r.field)

\* Game.run(): a fresh generator, `count = 0`, nothing executed yet
run == [pc |-> "start", count |-> 0]

attrs == [eyes |-> eyes, stripes |-> stripes, colors |-> colors]

Abs(n) == IF n < 0 THEN -n ELSE n
InCap(f) == Abs(f.next_count) <= MaxCount

\* history of consecutive evaluated mutation draws
consec_after(c, n) ==
    IF c = "ventilation" THEN n ELSE IF IsMutation(c) THEN n + 1 ELSE 0

(* Game.__init__ for a configuration of cfgs: throw_dice, then Field.create *)
InitOf(cfgs) ==
    \E cfg \in cfgs, l \in labs_dice, e \in eyes_dice, s \in stripes_dice,
       c \in colors_dice :
        LET f0 == Field_init(cfg, FALSE)
            start == lab_card(l)
        IN  /\ config = cfg
            /\ init_labs = l /\ init_eyes = e /\ init_stripes = s /\ init_colors = c
            /\ labs = l /\ eyes = e /\ stripes = s /\ colors = c
            /\ card = "None" /\ drawn = "" /\ out = <<>> /\ consec = 0
            /\ replayed = "None"
            /\ IF start \in Elems(f0.cards_static)
               THEN \E sh \in shuffle(Remove(f0.cards_static, start)) :
                       /\ field = create(f0, start, l[1], sh)
                       /\ obj_map = show(field.cards_static, l[1])
                       /\ created = field
                       /\ cards = run
                       /\ pc = "play"
               ELSE \* list.remove raises ValueError: no game is constructed
                    /\ field = [f0 EXCEPT !.direction = l[1]]
                    /\ obj_map = <<>>
                    /\ created = field
                    /\ cards = [pc |-> "none", count |-> 0]
                    /\ pc = "crashed"

Init == InitOf(Configs)

\* the effect of one iteration of the generator on the game attributes
Effect(r) ==
    /\ field' = r.field
    /\ eyes' = r.attrs.eyes /\ stripes' = r.attrs.stripes /\ colors' = r.attrs.colors
    /\ cards' = [pc |-> r.gpc, count |-> r.count]
    /\ drawn' = r.drawn
    /\ out' = IF r.value = "None" THEN <<>> ELSE <<r.value>>
    /\ consec' = consec_after(r.drawn, consec)

Advance(r) == InCap(r.field) /\ Effect(r)

\* variant: the loop pulls whether or not it holds an outcome, and the run
\* goes on with its next draw
Pull_eager ==
    /\ pc = "play"
    /\ cards.pc \in {"start", "marker", "running", "match", "dead"}
    /\ LET r == run_iter(field, attrs,
                         IF cards.pc = "dead" THEN cards.count + 1 ELSE cards.count)
       IN  /\ Advance(r)
           /\ card' = IF r.value = "None" THEN card ELSE r.value
    /\ UNCHANGED <<config, obj_map, created, init_labs, init_eyes, init_stripes,
                   init_colors, labs, pc, replayed>>

\* game_loop: `if not card: card = next(cards)`, one generator iteration at a time
Pull ==
    /\ pc = "play"
    /\ card \in {"None", ""}
    /\ cards.pc \in {"start", "marker", "running"}
    /\ LET r == run_iter(field, attrs, cards.count)
       IN  /\ Advance(r)
           /\ card' = IF r.value = "None" THEN card ELSE r.value
    /\ UNCHANGED <<config, obj_map, created, init_labs, init_eyes, init_stripes,
                   init_colors, labs, pc, replayed>>

\* variant: only the labs are restored, the attributes stay as mutated
set_init_dice_vals_labs_only ==
    /\ labs' = init_labs
    /\ UNCHANGED <<eyes, stripes, colors>>

\* Game.set_init_dice_vals
set_init_dice_vals ==
    /\ labs' = init_labs
    /\ eyes' = init_eyes
    /\ stripes' = init_stripes
    /\ colors' = init_colors

\* game_loop: left click on the button whose name is the held outcome;
\* Game.replay_correct up to its `cards = self.run()`
ClickCorrect(fname) ==
    /\ pc = "play"
    /\ card \notin {"None", ""}
    /\ fname = card
    /\ ~field.animation
    /\ LET f == cycle_to_start(field, lab_card(labs), labs[1])
       IN  /\ InCap(f)
           /\ field' = [f EXCEPT !.animation = TRUE]
    /\ set_init_dice_vals
    /\ cards' = run
    /\ drawn' = "" /\ out' = <<>> /\ consec' = 0
    /\ pc' = "replay"
    /\ UNCHANGED <<config, obj_map, created, init_labs, init_eyes, init_stripes,
                   init_colors, card, replayed>>

\* variant: the click handler does not compare the button with the outcome
Click_unchecked(fname) ==
    /\ pc = "play"
    /\ ~field.animation
    /\ LET f == cycle_to_start(field, lab_card(labs), labs[1])
       IN  /\ InCap(f)
           /\ field' = [f EXCEPT !.animation = TRUE]
    /\ set_init_dice_vals
    /\ cards' = run
    /\ drawn' = "" /\ out' = <<>> /\ consec' = 0
    /\ pc' = "replay"
    /\ UNCHANGED <<config, obj_map, created, init_labs, init_eyes, init_stripes,
                   init_colors, card, replayed>>

\* game_loop: a left click on the button fname of the ring (lines 562-575);
\* a button that is not the held outcome is only highlighted on the screen
Click(fname) ==
    /\ pc = "play"
    /\ IF fname = card THEN ClickCorrect(fname) ELSE UNCHANGED vars

\* Game.replay_correct: `while not next(cards): pass`, then animation off
Replay ==
    /\ pc = "replay"
    /\ cards.pc \in {"start", "marker", "running"}
    /\ LET r == run_iter(field, attrs, cards.count)
           done == r.value \notin {"None", ""}
           r2 == [r EXCEPT !.field = [r.field EXCEPT !.animation = ~done]]
       IN  /\ Advance(r2)
           /\ pc' = IF done THEN "again" ELSE "replay"
           /\ replayed' = IF done THEN r.value ELSE replayed
    /\ UNCHANGED <<config, obj_map, created, init_labs, init_eyes, init_stripes,
                   init_colors, labs, card>>

\* variant: the thrown values are stored as the snapshot only
throw_dice_snapshot_only(l, e, s, c) ==
    /\ init_labs' = l /\ init_eyes' = e /\ init_stripes' = s /\ init_colors' = c
    /\ UNCHANGED <<labs, eyes, stripes, colors>>

\* Game.throw_dice
throw_dice(l, e, s, c) ==
    /\ init_labs' = l /\ init_eyes' = e /\ init_stripes' = s /\ init_colors' = c
    /\ labs' = l /\ eyes' = e /\ stripes' = s /\ colors' = c

\* game_loop: `cards = game.run_again(); card = None`
RunAgain ==
    /\ pc = "again"
    /\ \E l \in labs_dice, e \in eyes_dice, s \in stripes_dice, c \in colors_dice :
        /\ throw_dice(l, e, s, c)
        /\ lab_card(l) \in Elems(field.cards_static)
        /\ LET f == cycle_to_start(field, lab_card(l), l[1])
           IN  /\ InCap(f)
               /\ field' = f
    /\ cards' = run
    /\ card' = "None"
    /\ drawn' = "" /\ out' = <<>> /\ consec' = 0
    /\ pc' = "play"
    /\ UNCHANGED <<config, obj_map, created, replayed>>

\* Game.run_again when the thrown lab is not in the deck: the while loop of
\* cycle_to_start never meets it and never returns
RunAgainHang ==
    /\ pc = "again"
    /\ \E l \in labs_dice, e \in eyes_dice, s \in stripes_dice, c \in colors_dice :
        /\ throw_dice(l, e, s, c)
        /\ lab_card(l) \notin Elems(field.cards_static)
        /\ field' = IF field.direction # l[1]
                    THEN [field EXCEPT !.direction = l[1],
                                       !.cards_static = Reverse(field.cards_static),
                                       !.cyc = 0, !.next_count = 0]
                    ELSE field
    /\ drawn' = "" /\ out' = <<>> /\ consec' = 0
    /\ pc' = "hang"
    /\ UNCHANGED <<config, obj_map, created, cards, card, replayed>>

Next ==
    \/ Pull
    \/ \E fname \in Elems(obj_map) : Click(fname)
    \/ Replay
    \/ RunAgain
    \/ RunAgainHang

Spec == Init /\ [][Next]_vars

(* one round on the default-shaped deck: main's loop keeps calling game_loop, *)
(* which pulls from the run as long as it holds no outcome                   *)
InitRound == InitOf({CfgDefaultShape})

PullRound ==
    /\ pc = "play"
    /\ card \in {"None", ""}
    /\ cards.pc \in {"start", "marker", "running"}
    /\ LET r == run_iter(field, attrs, cards.count)
       IN  /\ Abs(r.field.next_count) <= MaxRoundCount
           /\ Effect(r)
           /\ card' = IF r.value = "None" THEN card ELSE r.value
    /\ UNCHANGED <<config, obj_map, created, init_labs, init_eyes, init_stripes,
                   init_colors, labs, pc, replayed>>

NextRound == PullRound

\* ENABLED <<PullRound>>_vars: the guard of PullRound; every PullRound step
\* moves field.next_count, so none of them stutters
PullReady ==
    /\ pc = "play"
    /\ card \in {"None", ""}
    /\ cards.pc \in {"start", "marker", "running"}
    /\ Abs(run_iter(field, attrs, cards.count).field.next_count) <= MaxRoundCount

\* WF_vars(PullRound), with its ENABLED written as the guard: the loop of main
\* calls game_loop on every frame, so a pull that stays possible is taken
FairPull == []<>(~PullReady) \/ []<><<PullRound>>_vars

SpecRound == InitRound /\ [][NextRound]_vars /\ FairPull

(* ============================== claims ================================= *)

IsOther(c) == c \notin {"", "ventilation"} /\ ~IsMutation(c)

\* the name the spec gives the target (color, pattern, eyeCount)
TargetName ==
    IF colors = 1
    THEN IF stripes = 1
         THEN (IF eyes = 1 THEN "red_stripe_1" ELSE "red_stripe_2")
         ELSE (IF eyes = 1 THEN "red_dot_1" ELSE "red_dot_2")
    ELSE IF stripes = 1
         THEN (IF eyes = 1 THEN "blue_stripe_1" ELSE "blue_stripe_2")
         ELSE (IF eyes = 1 THEN "blue_dot_1" ELSE "blue_dot_2")

\* C1: whenever four mutation cards have been evaluated in a row, the run
\* reports DEAD at the fourth of them, the reported value is that card, and a
\* row that holds all the mutations of the run so far is not reported earlier.
C1_DeathOnFourth ==
    /\ consec >= 4 =>
          /\ consec = 4
          /\ cards.pc = "dead"
          /\ IsMutation(drawn)
          /\ out = <<drawn>>
    /\ (cards.pc = "dead" /\ consec = cards.count + 1) => consec = 4

C1_Witness ==
    /\ consec = 4 /\ cards.pc = "dead" /\ pc = "play" /\ card = drawn

\* C2 (as stated): DEAD is reported only at a draw whose three immediately
\* preceding evaluated draws were mutation cards too, because every evaluated
\* findable or lab draw resets the counter.
C2_DeadOnlyAfterFourInARow ==
    cards.pc = "dead" => consec >= 4

\* C3: an evaluated draw that is neither ventilation nor mutation reports
\* FOUND (yields the card) exactly when its name is the target formatted from
\* the attributes current at that draw; otherwise the run keeps seeking.
C3_FoundIffTarget ==
    IsOther(drawn) =>
        /\ (out = <<drawn>> /\ cards.pc = "match") <=> (drawn = TargetName)
        /\ drawn # TargetName => (out = <<"">> /\ cards.pc = "marker")
        /\ TargetName = card_to_find(colors, stripes, eyes)

C3_Witness ==
    /\ IsOther(drawn) /\ out = <<drawn>> /\ drawn = TargetName
    /\ <<init_colors, init_stripes, init_eyes>> # <<colors, stripes, eyes>>

\* the distance from ring index p (1-based) to the next ventilation after it
NextVent(cs, p) ==
    CHOOSE k \in 1..Len(cs) :
        /\ cs[((p - 1 + k) % Len(cs)) + 1] = "ventilation"
        /\ \A j \in 1..(k - 1) : cs[((p - 1 + j) % Len(cs)) + 1] # "ventilation"

\* C4: a ventilation draw advances the cursor up to and including the next
\* ventilation in traversal order and changes nothing else: attributes and
\* mutation counter are kept, nothing is produced, no skipped card is evaluated.
C4_VentilationSkip ==
    [][drawn' = "ventilation" =>
        LET cs == field.cards_static
            p == field.cyc + 1
            k == NextVent(cs, p)
        IN  /\ cs[p] = "ventilation"
            /\ field'.cards_static = cs
            /\ field'.direction = field.direction
            /\ field'.cyc = (p + k) % Len(cs)
            /\ field'.next_count = field.next_count +
                   (IF field.direction = "black" THEN -(1 + k) ELSE 1 + k)
            /\ <<eyes', stripes', colors'>> = <<eyes, stripes, colors>>
            /\ cards'.count = cards.count
            /\ consec' = consec
            /\ out' = <<>>
            /\ card' = card
            /\ replayed' = replayed
            /\ pc' = pc]_vars

\* a skip that passed over a mutation card
C4_Witness ==
    /\ drawn = "ventilation"
    /\ IsMutation(field.cards_static[((field.cyc - 2) % FieldLen(field)) + 1])
    /\ cards.count = 3 /\ consec = 3

\* C5: from the same Field state a visible advance (animation on or off) and
\* an invisible one return the same card and leave the same cursor: offset
\* +1 for white, -1 for black, same deck, same direction.
C5_VisibilityIrrelevant ==
    pc # "crashed" =>
        \A anim \in BOOLEAN :
            LET f == [field EXCEPT !.animation = anim]
                v == Field_next(f, TRUE)
                i == Field_next(f, FALSE)
            IN  /\ v.card = i.card
                /\ v.field = i.field
                /\ i.field.next_count =
                       f.next_count + (IF f.direction = "black" THEN -1 ELSE 1)
                /\ i.field.cards_static = f.cards_static
                /\ i.field.direction = f.direction

C5_Witness ==
    /\ field.direction = "black" /\ field.animation /\ field.next_count < -2
    /\ drawn # ""

\* the card the cursor returned last (the one before the cycle position)
LastReturned(f) == f.cards_static[((f.cyc - 1) % FieldLen(f)) + 1]

\* C6: replay_correct seeks invisibly to the round's start lab under its
\* direction without reversing the deck, resets the attributes to the dice
\* snapshot, and its animated resolution ends with the same terminal value
\* (same card, same FOUND/DEAD kind) as the silent resolution.
C6_ReplayDeterminism ==
    /\ [](pc = "again" =>
            /\ replayed = card
            /\ cards.pc = (IF IsMutation(card) THEN "dead" ELSE "match")
            /\ ~field.animation)
    /\ [][(pc = "play" /\ pc' = "replay") =>
            /\ <<eyes', stripes', colors'>> = <<init_eyes, init_stripes, init_colors>>
            /\ labs' = init_labs
            /\ field'.direction = init_labs[1]
            /\ field'.cards_static = field.cards_static
            /\ LastReturned(field') = lab_card(init_labs)
            /\ field'.animation
            /\ out' = <<>>]_vars

\* the replay ended after the attributes had been mutated
C6_Witness ==
    /\ pc = "again" /\ replayed = card
    /\ eyes # init_eyes /\ colors # init_colors

\* C7 (as stated): every evaluated draw that is neither ventilation nor
\* mutation has produced two values, the result and then the marker, by the
\* time the run goes on to its next draw.
C7_TwoValuesPerDraw ==
    [][(IsOther(drawn) /\ cards.pc = "marker" /\ field' # field) =>
            Len(out) = 2]_vars

\* C7 (amended): a draw that is neither ventilation nor mutation produces one
\* value: the empty marker when it does not match (the run then goes on to
\* the next draw), the card name when it matches (the run then stands before
\* the marker, which no caller pulls).
C7_OneValuePerDraw ==
    IsOther(drawn) =>
        /\ Len(out) = 1
        /\ out[1] = (IF drawn = TargetName THEN drawn ELSE "")
        /\ cards.pc = (IF drawn = TargetName THEN "match" ELSE "marker")
        /\ cards.pc = "match" => card = drawn \/ pc = "again"

C7_Witness ==
    /\ IsOther(drawn) /\ drawn # TargetName /\ out = <<"">>
    /\ drawn \in {"red_stripe_1", "blue_stripe_1", "red_dot_2"}

Flip(x) == IF x = 1 THEN 2 ELSE 1

\* C8: an evaluated eyes/stripes/colors mutation draw flips exactly the
\* corresponding attribute (1<->2) and keeps the other two, no other card
\* changes an attribute, and the same mutation twice restores the tuple.
C8_MutationFlips ==
    /\ [](\A c \in {"eyes_mutation", "stripes_mutation", "colors_mutation"} :
            /\ mutate(c, attrs) # attrs
            /\ mutate(c, mutate(c, attrs)) = attrs)
    /\ [][(pc \in {"play", "replay"} /\ cards'.pc # "start") =>
            /\ eyes' = (IF drawn' = "eyes_mutation" THEN Flip(eyes) ELSE eyes)
            /\ stripes' = (IF drawn' = "stripes_mutation" THEN Flip(stripes) ELSE stripes)
            /\ colors' = (IF drawn' = "colors_mutation" THEN Flip(colors) ELSE colors)]_vars

\* (red,stripe,1) -> (red,stripe,2) -> (red,stripe,1) by two eyes mutations
C8_Witness ==
    /\ drawn = "eyes_mutation" /\ consec = 2 /\ cards.count = 2
    /\ <<colors, stripes, eyes>> = <<1, 1, 1>>
    /\ <<init_colors, init_stripes, init_eyes>> = <<1, 1, 1>>

RECURSIVE Total(_)
Total(cfg) == IF cfg = <<>> THEN 0 ELSE Head(cfg)[2] + Total(Tail(cfg))

Count(cfg, x) ==
    IF \E i \in 1..Len(cfg) : cfg[i][1] = x
    THEN LET i == CHOOSE k \in 1..Len(cfg) : cfg[k][1] = x IN cfg[i][2]
    ELSE 0

\* C9: for a configuration that holds the start card, whatever the shuffle,
\* the deck built by Field.create has exactly the configured number of each
\* card (25 cards for the default configuration) and starts with the start card.
C9_DeckBuild ==
    /\ (pc = "play" /\ cards.pc = "start" /\ replayed = "None") =>
          /\ Len(Expand(DefaultCards)) = 25
          /\ \A i \in 1..Len(DefaultCards) :
                Occurs(Expand(DefaultCards), DefaultCards[i][1]) = DefaultCards[i][2]
    /\ (pc # "crashed" /\ replayed = "None") =>
          /\ Len(field.cards_static) = Total(config)
          /\ \A x \in Elems(field.cards_static) \cup {config[i][1] : i \in 1..Len(config)} :
                Occurs(field.cards_static, x) = Count(config, x)
          /\ field.cards_static[1] = lab_card(init_labs)

C9_Witness ==
    /\ config = CfgLabs
    /\ pc = "play" /\ cards.pc = "start" /\ replayed = "None"
    /\ field.cards_static[1] = "blue_lab" /\ field.cards_static[2] = "ventilation"
    /\ field.cards_static[6] = "red_lab"

\* n advances from f with the given visibilities: the last card returned,
\* the field reached and the cycle positions the cards were taken from
RECURSIVE advance_all(_, _, _, _, _)
advance_all(f, vis, i, last, seen) ==
    IF i > Len(vis) THEN [card |-> last, field |-> f, seen |-> seen]
    ELSE advance_all(Field_next(f, vis[i]).field, vis, i + 1,
                     Field_next(f, vis[i]).card, seen \cup {f.cyc})

\* mixes of visible and invisible advances: a visible prefix or suffix of any
\* length (all visible and all invisible included) and the two alternations
Mixes(n) ==
    {[i \in 1..n |-> i <= k] : k \in 0..n} \cup
    {[i \in 1..n |-> i > k] : k \in 0..n} \cup
    {[i \in 1..n |-> i % 2 = b] : b \in 0..1}

\* C10: in either direction and from any cursor position, as many advances as
\* the deck has cards (visible or not, in any mix) return the card that was
\* returned last before them and take each position of the ring once.
C10_CursorPeriodicity ==
    pc # "crashed" =>
        \A vis \in Mixes(FieldLen(field)) :
            LET r == advance_all(field, vis, 1, "", {})
            IN  /\ r.card = LastReturned(field)
                /\ r.seen = 0..(FieldLen(field) - 1)
                /\ r.field.cyc = field.cyc
                /\ r.field.cards_static = field.cards_static

C10_Witness ==
    /\ field.direction = "black" /\ field.cyc = 3 /\ drawn = "eyes_mutation"
    /\ LastReturned(field) = drawn /\ FieldLen(field) = 6

\* the distance from ring index p (1-based, 0 for "before the first card")
\* to the next occurrence of card x after it
NextCard(cs, p, x) ==
    CHOOSE k \in 1..Len(cs) :
        /\ cs[((p - 1 + k) % Len(cs)) + 1] = x
        /\ \A j \in 1..(k - 1) : cs[((p - 1 + j) % Len(cs)) + 1] # x

Directions == {"white", "black"}

\* C11: for any card of the deck, from any cursor position and for either
\* requested direction (reversing or not), cycle_to_start returns after at
\* most deck-size invisible advances with that card as the last one returned.
C11_SeekTerminates ==
    pc # "crashed" =>
        \A x \in Elems(field.cards_static), d \in Directions :
            LET g == cycle_to_start(field, x, d)
                turn == field.direction # d
                cs == IF turn THEN Reverse(field.cards_static) ELSE field.cards_static
                advances == Abs(g.next_count - (IF turn THEN 0 ELSE field.next_count))
            IN  /\ LastReturned(g) = x
                /\ advances \in 1..FieldLen(field)
                /\ advances = NextCard(cs, IF turn THEN 0 ELSE field.cyc, x)

\* a new round whose seek, after a reversal, took a whole lap
C11_Witness ==
    /\ pc = "play" /\ cards.pc = "start" /\ replayed # "None"
    /\ LastReturned(field) = lab_card(labs)
    /\ Abs(field.next_count) = FieldLen(field)
    /\ field.direction = "black"

\* C12 (as stated): a seek for a card that is not in the deck is reported as
\* an error; it is neither swallowed nor an endless traversal.
C12_SeekAbsentReported ==
    lab_card(labs) \notin Elems(field.cards_static) =>
        pc \in {"crashed", "NotFoundError"}

\* C13: cycle_to_start with the field's direction does not reverse and does
\* not reset the offset, it only seeks on from the current position; with the
\* other direction it reverses the deck (same cards, mirrored order),
\* restarts at offset 0 and then seeks.
C13_DirectionSetting ==
    [][((pc = "again" /\ pc' = "play") \/ (pc = "play" /\ pc' = "replay")) =>
        LET d == labs'[1]
            x == lab_card(labs')
            sign == IF d = "black" THEN -1 ELSE 1
        IN  IF d = field.direction
            THEN /\ field'.cards_static = field.cards_static
                 /\ field'.direction = field.direction
                 /\ field'.next_count = field.next_count +
                        sign * NextCard(field.cards_static, field.cyc, x)
                 /\ field'.cyc = (field.cyc +
                        NextCard(field.cards_static, field.cyc, x)) % FieldLen(field)
            ELSE /\ field'.cards_static = Reverse(field.cards_static)
                 /\ SameCards(field'.cards_static, field.cards_static)
                 /\ field'.direction = d
                 /\ field'.next_count =
                        sign * NextCard(Reverse(field.cards_static), 0, x)
                 /\ field'.cyc =
                        NextCard(Reverse(field.cards_static), 0, x) % FieldLen(field)]_vars

\* a new round that began with a reversal of the deck Field.create built
C13_Witness ==
    /\ pc = "play" /\ cards.pc = "start" /\ replayed # "None"
    /\ field.direction # created.direction
    /\ field.cards_static = Reverse(created.cards_static)
    /\ field.cards_static # created.cards_static
    /\ Abs(field.next_count) \in 1..(FieldLen(field) - 1)

LabsIn(f) == Elems(f.cards_static) \cap {"red_lab", "blue_lab", "yellow_lab"}

Other(d) == IF d = "black" THEN "white" ELSE "black"

\* the cards in the order the cursor returns them, from the next one on
Visitation(f) ==
    [i \in 1..FieldLen(f) |-> f.cards_static[((f.cyc + i - 1) % FieldLen(f)) + 1]]

\* C14: two direction changes, one right after the other (white->black->white
\* or black->white->black), give back the deck's original sequence, so the
\* cards are visited in the original order again.
C14_DoubleReversal ==
    pc # "crashed" =>
        \A x \in LabsIn(field), y \in LabsIn(field) :
            LET f1 == cycle_to_start(field, x, Other(field.direction))
                f2 == cycle_to_start(f1, y, field.direction)
                f0 == cycle_to_start(field, y, field.direction)
            IN  /\ f1.direction = Other(field.direction)
                /\ f2.direction = field.direction
                /\ f2.cards_static = field.cards_static
                /\ Visitation(f2) = Visitation(f0)

\* a round begun after the deck was reversed and reversed back
C14_Witness ==
    /\ pc = "play" /\ cards.pc = "start" /\ replayed # "None"
    /\ field.direction = created.direction
    /\ field.cards_static = created.cards_static
    /\ field.cards_static # Reverse(field.cards_static)
    /\ Abs(field.next_count) <= FieldLen(field)
    /\ config = CfgRounds

\* C15: after run_again the dice snapshot and the current attributes are the
\* thrown values, the field has the thrown direction (deck reversed iff the
\* direction changed), the cursor stands on the thrown lab, and the first
\* draw of the new run is the card that follows that lab.
C15_NextRound ==
    [][(pc = "again" /\ pc' = "play") =>
        /\ <<labs', eyes', stripes', colors'>> =
               <<init_labs', init_eyes', init_stripes', init_colors'>>
        /\ field'.direction = labs'[1]
        /\ field'.cards_static =
               (IF field.direction # labs'[1] THEN Reverse(field.cards_static)
                ELSE field.cards_static)
        /\ LastReturned(field') = lab_card(labs')
        /\ cards' = run /\ card' = "None"
        /\ run_iter(field', [eyes |-> eyes', stripes |-> stripes', colors |-> colors'],
                    0).drawn = Visitation(field')[1]
        /\ Visitation(field')[FieldLen(field)] = lab_card(labs')]_vars

C15_Witness ==
    /\ pc = "play" /\ cards.pc = "start" /\ replayed # "None"
    /\ labs = <<"black", "blue">> /\ init_labs = labs
    /\ LastReturned(field) = "blue_lab"
    /\ created.cards_static[1] = "red_lab" /\ created.direction = "white"
    /\ <<eyes, stripes, colors>> = <<2, 2, 2>>
    /\ <<init_eyes, init_stripes, init_colors>> = <<2, 2, 2>>

\* C16: once a run has reported FOUND or DEAD it is not resumed: no further
\* advance, attribute, counter or outcome comes from it; the only steps are
\* the replay (from the game loop) and the new round (after the replay).
C16_TerminalOutcomes ==
    /\ []((cards.pc \in {"match", "dead"} /\ pc = "play") =>
            /\ card = drawn /\ out = <<drawn>>
            /\ cards.pc = (IF IsMutation(drawn) THEN "dead" ELSE "match"))
    /\ [][cards.pc \in {"match", "dead"} =>
            \/ pc = "play" /\ pc' = "replay" /\ cards' = run /\ card' = card
            \/ pc = "again" /\ pc' = "play" /\ cards' = run /\ card' = "None"
            \/ pc = "again" /\ pc' = "hang" /\ cards' = cards]_vars

\* a second round that ended with FOUND
C16_Witness ==
    /\ pc = "play" /\ cards.pc = "match" /\ card = drawn
    /\ replayed # "None" /\ consec = 0 /\ cards.count > 0

ScenarioDeck ==
    <<"red_lab", "red_stripe_1", "ventilation", "ventilation", "blue_stripe_1">>

\* the first round on the freshly built scenario deck, direction white, with
\* the dice showing (colors, stripes, eyes) = (c, s, e)
Scenario(c, s, e) ==
    /\ created.cards_static = ScenarioDeck /\ created.direction = "white"
    /\ pc = "play" /\ replayed = "None"
    /\ <<init_colors, init_stripes, init_eyes>> = <<c, s, e>>

\* C17: on the scenario deck with target (red,stripe,1) the first evaluated
\* draw is red_lab, not a match, while the card to find is red_stripe_1, and
\* the second is red_stripe_1, reported as FOUND.
C17_ScenarioFound ==
    Scenario(1, 1, 1) =>
        /\ field.next_count \in 0..2
        /\ field.next_count = 0 => (drawn = "" /\ card = "None")
        /\ field.next_count = 1 =>
              /\ drawn = "red_lab" /\ out = <<"">> /\ card = ""
              /\ cards.pc = "marker"
              /\ field.current_card_filename = "red_stripe_1.png"
        /\ field.next_count = 2 =>
              /\ drawn = "red_stripe_1" /\ out = <<"red_stripe_1">>
              /\ card = "red_stripe_1" /\ cards.pc = "match"

C17_Witness ==
    Scenario(1, 1, 1) /\ field.next_count = 2 /\ card = "red_stripe_1"

\* C18 (as stated): on the scenario deck with target (blue,stripe,1) the skip
\* of the ventilation draw consumes blue_stripe_1 too, and blue_stripe_1 is
\* not reported as FOUND on that pass.
C18_BlueStripeSkipped ==
    Scenario(2, 1, 1) =>
        /\ drawn = "ventilation" => LastReturned(field) = "blue_stripe_1"
        /\ field.next_count <= 5 => card # "blue_stripe_1"

\* C18 (amended): red_lab and red_stripe_1 are evaluated without a match, the
\* ventilation draw skips to the adjacent second ventilation only, and the
\* next evaluated draw, the card after it, is blue_stripe_1, reported as FOUND.
C18_ScenarioVentilation ==
    Scenario(2, 1, 1) =>
        /\ field.next_count \in {0, 1, 2, 4, 5}
        /\ field.next_count = 1 =>
              (drawn = "red_lab" /\ out = <<"">> /\ card = "")
        /\ field.next_count = 2 =>
              (drawn = "red_stripe_1" /\ out = <<"">> /\ card = "")
        /\ field.next_count = 4 =>
              /\ drawn = "ventilation" /\ out = <<>> /\ card = ""
              /\ field.cyc = 4 /\ LastReturned(field) = "ventilation"
              /\ <<colors, stripes, eyes>> = <<2, 1, 1>>
        /\ field.next_count = 5 =>
              /\ drawn = "blue_stripe_1" /\ out = <<"blue_stripe_1">>
              /\ card = "blue_stripe_1" /\ cards.pc = "match"

C18_Witness ==
    Scenario(2, 1, 1) /\ field.next_count = 5 /\ card = "blue_stripe_1"

\* C19: in every reachable state the deck is the sequence Field.create built,
\* or its exact reverse exactly when the direction differs from the one it
\* was built with; only a direction change reorders it; its length is fixed.
C19_DeckStability ==
    /\ [](pc # "crashed" =>
            /\ field.cards_static =
                   (IF field.direction = created.direction
                    THEN created.cards_static
                    ELSE Reverse(created.cards_static))
            /\ Len(field.cards_static) = Total(config))
    /\ [][field'.cards_static # field.cards_static =>
            /\ field'.direction # field.direction
            /\ field'.cards_static = Reverse(field.cards_static)]_vars

\* a replay that ended on the reversed deck
C19_Witness ==
    /\ pc = "again" /\ field.direction # created.direction
    /\ field.cards_static = Reverse(created.cards_static)
    /\ field.cards_static # created.cards_static
    /\ Abs(field.next_count) > FieldLen(field)

\* C20: on the default-shaped deck, for every shuffle, start lab, direction
\* and initial attributes, pulling from the run again and again produces a
\* non-empty outcome (FOUND or DEAD), at the latest with the fourth mutation
\* card evaluated in the run.
C20_RoundEnds ==
    /\ [](/\ cards.count <= 3
          /\ cards.pc = "dead" => (cards.count = 3 /\ card = drawn)
          /\ Abs(field.next_count) < MaxRoundCount)
    /\ (pc = "play") ~> (card \notin {"None", ""} /\ cards.pc \in {"match", "dead"})

\* a round that went on for more than three laps and ended with DEAD
C20_Witness ==
    /\ config = CfgDefaultShape
    /\ cards.pc = "dead" /\ card = drawn
    /\ Abs(field.next_count) > 3 * FieldLen(field)

Findable ==
    {card_to_find(c, s, e) : c \in colors_dice, s \in stripes_dice, e \in eyes_dice}

Mutations == {"eyes_mutation", "stripes_mutation", "colors_mutation"}

\* C21: every non-empty value a run produces is the findable card named by the
\* current attributes (FOUND) or a mutation card (DEAD); labs, ventilations
\* and other findable cards are never produced, and the three kinds of value
\* (findable name, mutation name, empty) do not overlap.
C21_OutcomeKinds ==
    /\ Findable \cap Mutations = {} /\ "" \notin Findable \cup Mutations
    /\ \A i \in 1..Len(out) : out[i] # "" =>
          \/ /\ out[i] \in Findable /\ cards.pc = "match"
             /\ out[i] = card_to_find(colors, stripes, eyes)
          \/ out[i] \in Mutations /\ cards.pc = "dead"
    /\ (pc = "play" /\ card \notin {"None", ""}) =>
          \/ card \in Findable /\ card = card_to_find(colors, stripes, eyes)
          \/ card \in Mutations
    /\ replayed \in {"None"} \cup Findable \cup Mutations

\* the loop holds a mutation card as the outcome of the round
C21_Witness ==
    /\ pc = "play" /\ card = "colors_mutation" /\ out = <<card>>
    /\ cards.pc = "dead"
    /\ config = CfgMutations

\* C22: in every reachable state of a constructed game, the ring slot with
\* index (next_count - (1 if direction is black else 0)) mod deck size, in the
\* layout made once by create (deck order if built white, reversed deck order
\* if built black), holds the card the next advance returns.
C22_PointerConsistency ==
    pc # "crashed" =>
        /\ obj_map = (IF created.direction = "black"
                      THEN Reverse(created.cards_static)
                      ELSE created.cards_static)
        /\ Len(obj_map) = FieldLen(field)
        /\ obj_map[((field.next_count
                     - (IF field.direction = "black" THEN 1 ELSE 0))
                    % FieldLen(field)) + 1]
             = Field_next(field, TRUE).card
        /\ Field_next(field, TRUE).card = next_invisible(field).card

\* a deck built black and reversed to white for a later round, in the middle
\* of that round
C22_Witness ==
    /\ created.direction = "black" /\ field.direction = "white"
    /\ pc = "play" /\ cards.pc = "running" /\ replayed # "None"
    /\ field.next_count > 2

NoOutcome == card \in {"None", ""}

Thrown == <<init_labs, init_eyes, init_stripes, init_colors>>

\* C23: a replay, and the new round after it, starts only by a left click on
\* a button of the ring whose name is the non-empty outcome the loop holds;
\* while the loop holds no outcome, or when the clicked button is another
\* card, a click throws no dice, moves no cursor and changes no attribute.
C23_RoundTrigger ==
    /\ [](pc \in {"replay", "again"} => (~NoOutcome /\ card \in Elems(obj_map)))
    /\ [][/\ (pc = "play" /\ pc' # "play") =>
               /\ ~NoOutcome /\ Click(card) /\ pc' = "replay"
               /\ card \in Elems(obj_map)
          /\ \A fname \in Elems(obj_map) :
               (Click(fname) /\ (NoOutcome \/ fname # card)) =>
                   UNCHANGED <<field, labs, eyes, stripes, colors, Thrown,
                               cards, card, pc>>
          /\ (pc = "play" /\ NoOutcome) => (Pull /\ Thrown' = Thrown /\ labs' = labs)
          /\ Thrown' # Thrown => (pc = "again" /\ replayed = card)
         ]_vars

\* the replay has just been started by a click on the found card, in a ring
\* that shows other cards too
C23_Witness ==
    /\ pc = "replay" /\ cards = run /\ field.animation
    /\ card \in Findable /\ card \in Elems(obj_map)
    /\ Cardinality(Elems(obj_map)) > 1

====
